---- MODULE Spec2Model ----
(***************************************************************************)
(* Model of the aom-rs wrapper around the native libaom AV1 encoder:       *)
(*   - AV1EncoderConfig (src/src/core/config.rs): init + builder setters   *)
(*   - AV1Encoder       (src/src/core/encoder.rs): new, aom_codec_control, *)
(*     aom_codec_encode, flush, get_packet, Drop                           *)
(*   - AOMPacket::new and to_buffer: decoding of the native packet union   *)
(* The native library is the environment: every native call returns a      *)
(* nondeterministically chosen result.                                     *)
(***************************************************************************)
EXTENDS Integers, Sequences, FiniteSets, TLC

(***************************** bounds **************************************)
\* abstract values a configuration field can hold: 0..MaxValue
MaxValue == 1
\* number of setter calls made on one configuration builder
MaxSetterCalls == 2
\* native error codes returned by aom_codec_enc_config_default: 0..MaxCfgErr
MaxCfgErr == 10
\* usage presets passed to AV1EncoderConfig::init: 0..MaxUsage
MaxUsage == 1

Values == 0 .. MaxValue
CfgErrCodes == 0 .. MaxCfgErr
Usages == 0 .. MaxUsage

(************************ configuration record *****************************)
\* the fields of the native record aom_codec_enc_cfg that the builder sets
Fields ==
    {
      "g_usage", "g_threads", "g_profile",
      "g_w", "g_h", "g_limit",
      "g_forced_max_frame_width", "g_forced_max_frame_height", "g_bit_depth",
      "g_input_bit_depth", "g_timebase", "g_error_resilient",
      "g_pass", "g_lag_in_frames", "rc_dropframe_thresh",
      "rc_resize_mode", "rc_resize_denominator", "rc_resize_kf_denominator",
      "rc_superres_mode", "rc_superres_denominator", "rc_superres_kf_denominator",
      "rc_superres_qthresh", "rc_superres_kf_qthresh", "rc_end_usage",
      "rc_twopass_stats_in", "rc_firstpass_mb_stats_in", "rc_target_bitrate",
      "rc_min_quantizer", "rc_max_quantizer", "rc_undershoot_pct",
      "rc_overshoot_pct", "rc_buf_sz", "rc_buf_initial_sz",
      "rc_buf_optimal_sz", "rc_2pass_vbr_bias_pct", "rc_2pass_vbr_minsection_pct",
      "rc_2pass_vbr_maxsection_pct", "fwd_kf_enabled", "kf_mode",
      "kf_min_dist", "kf_max_dist", "sframe_dist",
      "sframe_mode", "large_scale_tile", "monochrome",
      "full_still_picture_hdr", "save_as_annexb", "tile_width_count",
      "tile_height_count", "tile_widths", "tile_heights",
      "use_fixed_qp_offsets", "fixed_qp_offsets", "encoder_cfg" }

\* the records aom_codec_enc_config_default may write for a usage preset: the
\* library's defaults are not part of the wrapper, so g_usage holds the preset
\* and an abstract value d stands for every other default
NativeDefaults(usage) ==
    { [f \in Fields |-> IF f = "g_usage" THEN usage ELSE d] : d \in Values }

NoConfig == [tag |-> "None"]
NoResult == [tag |-> "NoResult"]
NoSetter == [name |-> "none", value |-> 0]
NotSet == [set |-> FALSE]
SelfRef == "self"
NoRef == "none"

(************************** encoder bounds *********************************)
\* native error codes returned by the encoder entry points: 0..MaxErr
MaxErr == 1
\* size of the native output memory, in bytes
MemSize == 2
\* byte values 0..MaxByte
MaxByte == 1
\* packets the native encoder queues per encode/flush call
MaxPkts == 2
\* wrapper operations performed on one encoder
MaxOps == 4
\* frame flag words 0..MaxFlags
MaxFlags == 3
\* presentation timestamps 0..MaxPts
MaxPts == 1

\* frame widths and heights 1..MaxDim
MaxDim == 2
\* plane line sizes 1..MaxLinesize
MaxLinesize == 2

ErrCodes == 0 .. MaxErr
Addr == 0 .. (MemSize - 1)
Bytes == 0 .. MaxByte
FlagWords == 0 .. MaxFlags
PtsValues == 0 .. MaxPts

VARIABLES
    config,        \* the AV1EncoderConfig object: NoConfig or [tag, enc_cfg]
    cfgResult,     \* value returned by AV1EncoderConfig::init
    cfgNativeRet,  \* code returned by aom_codec_enc_config_default
    nativeDefault, \* history: the record aom_codec_enc_config_default wrote
    lastSet,       \* history: per field, the value of the latest setter call
    lastSetter,    \* history: name and value of the latest setter call
    nSetterCalls,  \* history: number of setter calls so far
    setterRet,     \* the reference returned by the latest setter call
    encState,      \* life of the AV1Encoder: none, live, failed, panicked, dropped
    iter,          \* AV1Encoder.iter: <<>> is null, <<i>> points at pkts + i
    ctxState,      \* native aom_codec_ctx: uninit, init, destroyed
    pktList,       \* native packet list of the context
    mem,           \* native memory the packet buffers point into
    ret,           \* value returned by the latest wrapper operation
    nativeRet,     \* value returned by the latest native call
    calls,         \* history: number of calls of each native function
    lastOp,        \* history: the latest wrapper operation
    nOps,          \* history: number of wrapper operations so far
    nativeImg,     \* history: image argument of the latest aom_codec_encode
    gets,          \* history: get_packet calls since the latest native encode
    held,          \* the packets the caller holds, as get_packet returned them
    frameArg,      \* the frame given to img_from_frame
    imgRet,        \* the aom_image img_from_frame returned
    pc,            \* build.rs: the point main has reached
    aomDir,        \* build.rs: the directory AOM_DIR, [exists, files]
    tmpDir,        \* build.rs: the temporary directory with the extraction
    ffiDir,        \* build.rs: whether src/ffi exists
    buildDir,      \* build.rs: the directory AOM_BUILD_DIR, [exists, lib]
    headers_exist, \* build.rs: the local variable of main
    bindings,      \* build.rs: whether the bindings have been written
    aomAtStart,    \* history: AOM_DIR as main found it
    downloadCalls  \* history: calls of download_and_extract_libaom

cfgVars == <<config, cfgResult, cfgNativeRet, nativeDefault, lastSet,
             lastSetter, nSetterCalls, setterRet>>
encVars == <<encState, iter, ctxState, pktList, mem, ret, nativeRet, calls,
             lastOp, nOps, nativeImg, gets, held>>
imgVars == <<frameArg, imgRet>>
buildVars == <<pc, aomDir, tmpDir, ffiDir, buildDir, headers_exist, bindings,
               aomAtStart, downloadCalls>>
vars == <<config, cfgResult, cfgNativeRet, nativeDefault, lastSet,
          lastSetter, nSetterCalls, setterRet, encState, iter, ctxState,
          pktList, mem, ret, nativeRet, calls, lastOp, nOps, nativeImg,
          gets, held, frameArg, imgRet, pc, aomDir, tmpDir, ffiDir, buildDir,
          headers_exist, bindings, aomAtStart, downloadCalls>>

(******************** AV1EncoderConfig::init *******************************)
Digit(d) ==
    CASE d = 0 -> "0" [] d = 1 -> "1" [] d = 2 -> "2" [] d = 3 -> "3"
      [] d = 4 -> "4" [] d = 5 -> "5" [] d = 6 -> "6" [] d = 7 -> "7"
      [] d = 8 -> "8" [] d = 9 -> "9"

\* Display for u32 as used by format!("{is_success}"): decimal, no padding
RECURSIVE format_u32(_)
format_u32(n) ==
    IF n < 10 THEN Digit(n) ELSE format_u32(n \div 10) \o Digit(n % 10)

\* init that takes both 0 and 1 for success
init_zero_or_one(usage) ==
    /\ cfgResult = NoResult
    /\ \E is_success \in CfgErrCodes, written \in NativeDefaults(usage) :
         /\ cfgNativeRet' = is_success
         /\ IF is_success <= 1
            THEN /\ config' = [tag |-> "Some", enc_cfg |-> written]
                 /\ cfgResult' = [tag |-> "Ok"]
                 /\ nativeDefault' = written
            ELSE /\ config' = NoConfig
                 /\ cfgResult' =
                       [tag |-> "Err",
                        msg |-> "Failed to initialize encoder: error code "
                                  \o format_u32(is_success)]
                 /\ UNCHANGED nativeDefault
    /\ UNCHANGED <<lastSet, lastSetter, nSetterCalls, setterRet>>
    /\ UNCHANGED encVars
    /\ UNCHANGED buildVars
    /\ UNCHANGED imgVars

\* config.rs:46-62  AV1EncoderConfig::init(config)
init(usage) ==
    /\ cfgResult = NoResult
    /\ \E is_success \in CfgErrCodes, written \in NativeDefaults(usage) :
         /\ cfgNativeRet' = is_success
         /\ IF is_success = 0
            THEN /\ config' = [tag |-> "Some", enc_cfg |-> written]
                 /\ cfgResult' = [tag |-> "Ok"]
                 /\ nativeDefault' = written
            ELSE /\ config' = NoConfig
                 /\ cfgResult' =
                       [tag |-> "Err",
                        msg |-> "Failed to initialize encoder: error code "
                                  \o format_u32(is_success)]
                 /\ UNCHANGED nativeDefault
    /\ UNCHANGED <<lastSet, lastSetter, nSetterCalls, setterRet>>
    /\ UNCHANGED encVars
    /\ UNCHANGED buildVars
    /\ UNCHANGED imgVars

(********************* builder setters (history part) **********************)
\* a setter needs a builder: init returned Ok
SetterCallable ==
    /\ config.tag = "Some"
    /\ nSetterCalls < MaxSetterCalls

\* history of the call; the encoder is untouched by the builder
SetterCalled(name, value) ==
    /\ lastSet' = [lastSet EXCEPT ![name] = [set |-> TRUE, value |-> value]]
    /\ lastSetter' = [name |-> name, value |-> value]
    /\ nSetterCalls' = nSetterCalls + 1
    /\ UNCHANGED <<cfgResult, cfgNativeRet, nativeDefault>>
    /\ UNCHANGED encVars
    /\ UNCHANGED buildVars
    /\ UNCHANGED imgVars

(************* impl AomCodecEncCfgTrait for AV1EncoderConfig ***************)
\* config.rs:73  fn g_usage(&mut self, value) -> &mut Self
g_usage(value) ==
    /\ SetterCallable
    /\ config' = [config EXCEPT !.enc_cfg.g_usage = value]
    /\ setterRet' = SelfRef
    /\ SetterCalled("g_usage", value)

\* config.rs:85  fn g_threads(&mut self, value) -> &mut Self
g_threads(value) ==
    /\ SetterCallable
    /\ config' = [config EXCEPT !.enc_cfg.g_threads = value]
    /\ setterRet' = SelfRef
    /\ SetterCalled("g_threads", value)

\* config.rs:97  fn g_profile(&mut self, value) -> &mut Self
g_profile(value) ==
    /\ SetterCallable
    /\ config' = [config EXCEPT !.enc_cfg.g_profile = value]
    /\ setterRet' = SelfRef
    /\ SetterCalled("g_profile", value)

\* g_w that assigns the neighbouring field g_h
g_w_writes_g_h(value) ==
    /\ SetterCallable
    /\ config' = [config EXCEPT !.enc_cfg.g_h = value]
    /\ setterRet' = SelfRef
    /\ SetterCalled("g_w", value)

\* config.rs:109  fn g_w(&mut self, value) -> &mut Self
g_w(value) ==
    /\ SetterCallable
    /\ config' = [config EXCEPT !.enc_cfg.g_w = value]
    /\ setterRet' = SelfRef
    /\ SetterCalled("g_w", value)

\* config.rs:121  fn g_h(&mut self, value) -> &mut Self
g_h(value) ==
    /\ SetterCallable
    /\ config' = [config EXCEPT !.enc_cfg.g_h = value]
    /\ setterRet' = SelfRef
    /\ SetterCalled("g_h", value)

\* config.rs:133  fn g_limit(&mut self, value) -> &mut Self
g_limit(value) ==
    /\ SetterCallable
    /\ config' = [config EXCEPT !.enc_cfg.g_limit = value]
    /\ setterRet' = SelfRef
    /\ SetterCalled("g_limit", value)

\* config.rs:145  fn g_forced_max_frame_width(&mut self, value) -> &mut Self
g_forced_max_frame_width(value) ==
    /\ SetterCallable
    /\ config' = [config EXCEPT !.enc_cfg.g_forced_max_frame_width = value]
    /\ setterRet' = SelfRef
    /\ SetterCalled("g_forced_max_frame_width", value)

\* config.rs:157  fn g_forced_max_frame_height(&mut self, value) -> &mut Self
g_forced_max_frame_height(value) ==
    /\ SetterCallable
    /\ config' = [config EXCEPT !.enc_cfg.g_forced_max_frame_height = value]
    /\ setterRet' = SelfRef
    /\ SetterCalled("g_forced_max_frame_height", value)

\* config.rs:169  fn g_bit_depth(&mut self, value) -> &mut Self
g_bit_depth(value) ==
    /\ SetterCallable
    /\ config' = [config EXCEPT !.enc_cfg.g_bit_depth = value]
    /\ setterRet' = SelfRef
    /\ SetterCalled("g_bit_depth", value)

\* config.rs:181  fn g_input_bit_depth(&mut self, value) -> &mut Self
g_input_bit_depth(value) ==
    /\ SetterCallable
    /\ config' = [config EXCEPT !.enc_cfg.g_input_bit_depth = value]
    /\ setterRet' = SelfRef
    /\ SetterCalled("g_input_bit_depth", value)

\* config.rs:193  fn g_timebase(&mut self, value) -> &mut Self
g_timebase(value) ==
    /\ SetterCallable
    /\ config' = [config EXCEPT !.enc_cfg.g_timebase = value]
    /\ setterRet' = SelfRef
    /\ SetterCalled("g_timebase", value)

\* config.rs:205  fn g_error_resilient(&mut self, value) -> &mut Self
g_error_resilient(value) ==
    /\ SetterCallable
    /\ config' = [config EXCEPT !.enc_cfg.g_error_resilient = value]
    /\ setterRet' = SelfRef
    /\ SetterCalled("g_error_resilient", value)

\* config.rs:217  fn g_pass(&mut self, value) -> &mut Self
g_pass(value) ==
    /\ SetterCallable
    /\ config' = [config EXCEPT !.enc_cfg.g_pass = value]
    /\ setterRet' = SelfRef
    /\ SetterCalled("g_pass", value)

\* config.rs:229  fn g_lag_in_frames(&mut self, value) -> &mut Self
g_lag_in_frames(value) ==
    /\ SetterCallable
    /\ config' = [config EXCEPT !.enc_cfg.g_lag_in_frames = value]
    /\ setterRet' = SelfRef
    /\ SetterCalled("g_lag_in_frames", value)

\* config.rs:241  fn rc_dropframe_thresh(&mut self, value) -> &mut Self
rc_dropframe_thresh(value) ==
    /\ SetterCallable
    /\ config' = [config EXCEPT !.enc_cfg.rc_dropframe_thresh = value]
    /\ setterRet' = SelfRef
    /\ SetterCalled("rc_dropframe_thresh", value)

\* config.rs:253  fn rc_resize_mode(&mut self, value) -> &mut Self
rc_resize_mode(value) ==
    /\ SetterCallable
    /\ config' = [config EXCEPT !.enc_cfg.rc_resize_mode = value]
    /\ setterRet' = SelfRef
    /\ SetterCalled("rc_resize_mode", value)

\* config.rs:265  fn rc_resize_denominator(&mut self, value) -> &mut Self
rc_resize_denominator(value) ==
    /\ SetterCallable
    /\ config' = [config EXCEPT !.enc_cfg.rc_resize_denominator = value]
    /\ setterRet' = SelfRef
    /\ SetterCalled("rc_resize_denominator", value)

\* config.rs:277  fn rc_resize_kf_denominator(&mut self, value) -> &mut Self
rc_resize_kf_denominator(value) ==
    /\ SetterCallable
    /\ config' = [config EXCEPT !.enc_cfg.rc_resize_kf_denominator = value]
    /\ setterRet' = SelfRef
    /\ SetterCalled("rc_resize_kf_denominator", value)

\* config.rs:289  fn rc_superres_mode(&mut self, value) -> &mut Self
rc_superres_mode(value) ==
    /\ SetterCallable
    /\ config' = [config EXCEPT !.enc_cfg.rc_superres_mode = value]
    /\ setterRet' = SelfRef
    /\ SetterCalled("rc_superres_mode", value)

\* config.rs:301  fn rc_superres_denominator(&mut self, value) -> &mut Self
rc_superres_denominator(value) ==
    /\ SetterCallable
    /\ config' = [config EXCEPT !.enc_cfg.rc_superres_denominator = value]
    /\ setterRet' = SelfRef
    /\ SetterCalled("rc_superres_denominator", value)

\* config.rs:313  fn rc_superres_kf_denominator(&mut self, value) -> &mut Self
rc_superres_kf_denominator(value) ==
    /\ SetterCallable
    /\ config' = [config EXCEPT !.enc_cfg.rc_superres_kf_denominator = value]
    /\ setterRet' = SelfRef
    /\ SetterCalled("rc_superres_kf_denominator", value)

\* config.rs:325  fn rc_superres_qthresh(&mut self, value) -> &mut Self
rc_superres_qthresh(value) ==
    /\ SetterCallable
    /\ config' = [config EXCEPT !.enc_cfg.rc_superres_qthresh = value]
    /\ setterRet' = SelfRef
    /\ SetterCalled("rc_superres_qthresh", value)

\* config.rs:337  fn rc_superres_kf_qthresh(&mut self, value) -> &mut Self
rc_superres_kf_qthresh(value) ==
    /\ SetterCallable
    /\ config' = [config EXCEPT !.enc_cfg.rc_superres_kf_qthresh = value]
    /\ setterRet' = SelfRef
    /\ SetterCalled("rc_superres_kf_qthresh", value)

\* config.rs:349  fn rc_end_usage(&mut self, value) -> &mut Self
rc_end_usage(value) ==
    /\ SetterCallable
    /\ config' = [config EXCEPT !.enc_cfg.rc_end_usage = value]
    /\ setterRet' = SelfRef
    /\ SetterCalled("rc_end_usage", value)

\* config.rs:361  fn rc_twopass_stats_in(&mut self, value) -> &mut Self
rc_twopass_stats_in(value) ==
    /\ SetterCallable
    /\ config' = [config EXCEPT !.enc_cfg.rc_twopass_stats_in = value]
    /\ setterRet' = SelfRef
    /\ SetterCalled("rc_twopass_stats_in", value)

\* config.rs:373  fn rc_firstpass_mb_stats_in(&mut self, value) -> &mut Self
rc_firstpass_mb_stats_in(value) ==
    /\ SetterCallable
    /\ config' = [config EXCEPT !.enc_cfg.rc_firstpass_mb_stats_in = value]
    /\ setterRet' = SelfRef
    /\ SetterCalled("rc_firstpass_mb_stats_in", value)

\* config.rs:385  fn rc_target_bitrate(&mut self, value) -> &mut Self
rc_target_bitrate(value) ==
    /\ SetterCallable
    /\ config' = [config EXCEPT !.enc_cfg.rc_target_bitrate = value]
    /\ setterRet' = SelfRef
    /\ SetterCalled("rc_target_bitrate", value)

\* config.rs:397  fn rc_min_quantizer(&mut self, value) -> &mut Self
rc_min_quantizer(value) ==
    /\ SetterCallable
    /\ config' = [config EXCEPT !.enc_cfg.rc_min_quantizer = value]
    /\ setterRet' = SelfRef
    /\ SetterCalled("rc_min_quantizer", value)

\* config.rs:409  fn rc_max_quantizer(&mut self, value) -> &mut Self
rc_max_quantizer(value) ==
    /\ SetterCallable
    /\ config' = [config EXCEPT !.enc_cfg.rc_max_quantizer = value]
    /\ setterRet' = SelfRef
    /\ SetterCalled("rc_max_quantizer", value)

\* config.rs:421  fn rc_undershoot_pct(&mut self, value) -> &mut Self
rc_undershoot_pct(value) ==
    /\ SetterCallable
    /\ config' = [config EXCEPT !.enc_cfg.rc_undershoot_pct = value]
    /\ setterRet' = SelfRef
    /\ SetterCalled("rc_undershoot_pct", value)

\* config.rs:433  fn rc_overshoot_pct(&mut self, value) -> &mut Self
rc_overshoot_pct(value) ==
    /\ SetterCallable
    /\ config' = [config EXCEPT !.enc_cfg.rc_overshoot_pct = value]
    /\ setterRet' = SelfRef
    /\ SetterCalled("rc_overshoot_pct", value)

\* config.rs:445  fn rc_buf_sz(&mut self, value) -> &mut Self
rc_buf_sz(value) ==
    /\ SetterCallable
    /\ config' = [config EXCEPT !.enc_cfg.rc_buf_sz = value]
    /\ setterRet' = SelfRef
    /\ SetterCalled("rc_buf_sz", value)

\* config.rs:457  fn rc_buf_initial_sz(&mut self, value) -> &mut Self
rc_buf_initial_sz(value) ==
    /\ SetterCallable
    /\ config' = [config EXCEPT !.enc_cfg.rc_buf_initial_sz = value]
    /\ setterRet' = SelfRef
    /\ SetterCalled("rc_buf_initial_sz", value)

\* config.rs:469  fn rc_buf_optimal_sz(&mut self, value) -> &mut Self
rc_buf_optimal_sz(value) ==
    /\ SetterCallable
    /\ config' = [config EXCEPT !.enc_cfg.rc_buf_optimal_sz = value]
    /\ setterRet' = SelfRef
    /\ SetterCalled("rc_buf_optimal_sz", value)

\* config.rs:481  fn rc_2pass_vbr_bias_pct(&mut self, value) -> &mut Self
rc_2pass_vbr_bias_pct(value) ==
    /\ SetterCallable
    /\ config' = [config EXCEPT !.enc_cfg.rc_2pass_vbr_bias_pct = value]
    /\ setterRet' = SelfRef
    /\ SetterCalled("rc_2pass_vbr_bias_pct", value)

\* config.rs:493  fn rc_2pass_vbr_minsection_pct(&mut self, value) -> &mut Self
rc_2pass_vbr_minsection_pct(value) ==
    /\ SetterCallable
    /\ config' = [config EXCEPT !.enc_cfg.rc_2pass_vbr_minsection_pct = value]
    /\ setterRet' = SelfRef
    /\ SetterCalled("rc_2pass_vbr_minsection_pct", value)

\* config.rs:505  fn rc_2pass_vbr_maxsection_pct(&mut self, value) -> &mut Self
rc_2pass_vbr_maxsection_pct(value) ==
    /\ SetterCallable
    /\ config' = [config EXCEPT !.enc_cfg.rc_2pass_vbr_maxsection_pct = value]
    /\ setterRet' = SelfRef
    /\ SetterCalled("rc_2pass_vbr_maxsection_pct", value)

\* config.rs:517  fn fwd_kf_enabled(&mut self, value) -> &mut Self
fwd_kf_enabled(value) ==
    /\ SetterCallable
    /\ config' = [config EXCEPT !.enc_cfg.fwd_kf_enabled = value]
    /\ setterRet' = SelfRef
    /\ SetterCalled("fwd_kf_enabled", value)

\* config.rs:529  fn kf_mode(&mut self, value) -> &mut Self
kf_mode(value) ==
    /\ SetterCallable
    /\ config' = [config EXCEPT !.enc_cfg.kf_mode = value]
    /\ setterRet' = SelfRef
    /\ SetterCalled("kf_mode", value)

\* config.rs:541  fn kf_min_dist(&mut self, value) -> &mut Self
kf_min_dist(value) ==
    /\ SetterCallable
    /\ config' = [config EXCEPT !.enc_cfg.kf_min_dist = value]
    /\ setterRet' = SelfRef
    /\ SetterCalled("kf_min_dist", value)

\* kf_max_dist that only ever raises the field
kf_max_dist_keeps_larger(value) ==
    /\ SetterCallable
    /\ config' = [config EXCEPT !.enc_cfg.kf_max_dist = IF value > @ THEN value ELSE @]
    /\ setterRet' = SelfRef
    /\ SetterCalled("kf_max_dist", value)

\* config.rs:553  fn kf_max_dist(&mut self, value) -> &mut Self
kf_max_dist(value) ==
    /\ SetterCallable
    /\ config' = [config EXCEPT !.enc_cfg.kf_max_dist = value]
    /\ setterRet' = SelfRef
    /\ SetterCalled("kf_max_dist", value)

\* config.rs:565  fn sframe_dist(&mut self, value) -> &mut Self
sframe_dist(value) ==
    /\ SetterCallable
    /\ config' = [config EXCEPT !.enc_cfg.sframe_dist = value]
    /\ setterRet' = SelfRef
    /\ SetterCalled("sframe_dist", value)

\* config.rs:577  fn sframe_mode(&mut self, value) -> &mut Self
sframe_mode(value) ==
    /\ SetterCallable
    /\ config' = [config EXCEPT !.enc_cfg.sframe_mode = value]
    /\ setterRet' = SelfRef
    /\ SetterCalled("sframe_mode", value)

\* config.rs:589  fn large_scale_tile(&mut self, value) -> &mut Self
large_scale_tile(value) ==
    /\ SetterCallable
    /\ config' = [config EXCEPT !.enc_cfg.large_scale_tile = value]
    /\ setterRet' = SelfRef
    /\ SetterCalled("large_scale_tile", value)

\* config.rs:601  fn monochrome(&mut self, value) -> &mut Self
monochrome(value) ==
    /\ SetterCallable
    /\ config' = [config EXCEPT !.enc_cfg.monochrome = value]
    /\ setterRet' = SelfRef
    /\ SetterCalled("monochrome", value)

\* config.rs:613  fn full_still_picture_hdr(&mut self, value) -> &mut Self
full_still_picture_hdr(value) ==
    /\ SetterCallable
    /\ config' = [config EXCEPT !.enc_cfg.full_still_picture_hdr = value]
    /\ setterRet' = SelfRef
    /\ SetterCalled("full_still_picture_hdr", value)

\* config.rs:625  fn save_as_annexb(&mut self, value) -> &mut Self
save_as_annexb(value) ==
    /\ SetterCallable
    /\ config' = [config EXCEPT !.enc_cfg.save_as_annexb = value]
    /\ setterRet' = SelfRef
    /\ SetterCalled("save_as_annexb", value)

\* config.rs:637  fn tile_width_count(&mut self, value) -> &mut Self
tile_width_count(value) ==
    /\ SetterCallable
    /\ config' = [config EXCEPT !.enc_cfg.tile_width_count = value]
    /\ setterRet' = SelfRef
    /\ SetterCalled("tile_width_count", value)

\* config.rs:649  fn tile_height_count(&mut self, value) -> &mut Self
tile_height_count(value) ==
    /\ SetterCallable
    /\ config' = [config EXCEPT !.enc_cfg.tile_height_count = value]
    /\ setterRet' = SelfRef
    /\ SetterCalled("tile_height_count", value)

\* config.rs:661  fn tile_widths(&mut self, value) -> &mut Self
tile_widths(value) ==
    /\ SetterCallable
    /\ config' = [config EXCEPT !.enc_cfg.tile_widths = value]
    /\ setterRet' = SelfRef
    /\ SetterCalled("tile_widths", value)

\* config.rs:673  fn tile_heights(&mut self, value) -> &mut Self
tile_heights(value) ==
    /\ SetterCallable
    /\ config' = [config EXCEPT !.enc_cfg.tile_heights = value]
    /\ setterRet' = SelfRef
    /\ SetterCalled("tile_heights", value)

\* config.rs:685  fn use_fixed_qp_offsets(&mut self, value) -> &mut Self
use_fixed_qp_offsets(value) ==
    /\ SetterCallable
    /\ config' = [config EXCEPT !.enc_cfg.use_fixed_qp_offsets = value]
    /\ setterRet' = SelfRef
    /\ SetterCalled("use_fixed_qp_offsets", value)

\* config.rs:697  fn fixed_qp_offsets(&mut self, value) -> &mut Self
fixed_qp_offsets(value) ==
    /\ SetterCallable
    /\ config' = [config EXCEPT !.enc_cfg.fixed_qp_offsets = value]
    /\ setterRet' = SelfRef
    /\ SetterCalled("fixed_qp_offsets", value)

\* config.rs:709  fn encoder_cfg(&mut self, value) -> &mut Self
encoder_cfg(value) ==
    /\ SetterCallable
    /\ config' = [config EXCEPT !.enc_cfg.encoder_cfg = value]
    /\ setterRet' = SelfRef
    /\ SetterCalled("encoder_cfg", value)

(************************* native packets **********************************)
AOM_CODEC_CX_FRAME_PKT == "AOM_CODEC_CX_FRAME_PKT"
AOM_CODEC_STATS_PKT == "AOM_CODEC_STATS_PKT"
AOM_CODEC_FPMB_STATS_PKT == "AOM_CODEC_FPMB_STATS_PKT"
AOM_CODEC_PSNR_PKT == "AOM_CODEC_PSNR_PKT"
AOM_CODEC_CUSTOM_PKT == "AOM_CODEC_CUSTOM_PKT"

\* the bit of a frame's flags word that marks a key frame
AOM_FRAME_IS_KEY == 1

\* aom_fixed_buf_t values lying inside the native memory
FixedBufs ==
    { x \in [buf : Addr, sz : 0 .. MemSize] : x.buf + x.sz <= MemSize }

\* the two contents a four-element statistics array takes in the model
Arr4 == { <<0, 0, 0, 0>>, <<1, 2, 3, 4>> }

PsnrPkts ==
    [samples : Arr4, psnr : Arr4, sse : Arr4,
     samples_hbd : Arr4, sse_hbd : Arr4, psnr_hbd : Arr4]

\* aom_codec_cx_pkt: the kind tag and the member of the union it selects
FramePkts ==
    { [kind |-> AOM_CODEC_CX_FRAME_PKT,
       data |-> [frame |-> [buf |-> b.buf, sz |-> b.sz, pts |-> t, flags |-> fl]]] :
         b \in FixedBufs, t \in PtsValues, fl \in FlagWords }
StatsPkts ==
    { [kind |-> AOM_CODEC_STATS_PKT, data |-> [twopass_stats |-> b]] :
         b \in FixedBufs }
FpmbPkts ==
    { [kind |-> AOM_CODEC_FPMB_STATS_PKT, data |-> [firstpass_mb_stats |-> b]] :
         b \in FixedBufs }
PsnrNativePkts ==
    { [kind |-> AOM_CODEC_PSNR_PKT, data |-> [psnr |-> p]] : p \in PsnrPkts }
RawPkts ==
    { [kind |-> AOM_CODEC_CUSTOM_PKT, data |-> [raw |-> b]] : b \in FixedBufs }

NativePackets == FramePkts \cup StatsPkts \cup FpmbPkts \cup PsnrNativePkts \cup RawPkts

(***************************** utils.rs ************************************)
\* ptr::copy_nonoverlapping(src, dst, count) into a fresh destination:
\* the count bytes of native memory m starting at src
copy_nonoverlapping(m, src, count) ==
    [i \in 1 .. count |-> m[src + (i - 1)]]

\* to_buffer with the length set one short of buf.sz
to_buffer_short(m, buf) ==
    LET v == copy_nonoverlapping(m, buf.buf, buf.sz)
    IN  SubSeq(v, 1, buf.sz - 1)

\* utils.rs:32-39  to_buffer(buf)
to_buffer(m, buf) ==
    LET v == copy_nonoverlapping(m, buf.buf, buf.sz)
    IN  SubSeq(v, 1, buf.sz)

(************************** AOMPacket::new *********************************)
\* bitwise and of two u32 words
RECURSIVE BitAnd(_, _)
BitAnd(a, b) ==
    IF a = 0 \/ b = 0 THEN 0
    ELSE (a % 2) * (b % 2) + 2 * BitAnd(a \div 2, b \div 2)

Some(x) == [tag |-> "Some", val |-> x]
None == [tag |-> "None"]
Panic(msg) == [tag |-> "Panic", msg |-> msg]

\* AOMPacket::new with the variants of the statistics and custom arms exchanged
AOMPacket_new_swapped(m, pkt) ==
    CASE pkt.kind = AOM_CODEC_CX_FRAME_PKT ->
           LET f == pkt.data.frame
               data == SubSeq(copy_nonoverlapping(m, f.buf, f.sz), 1, f.sz)
           IN  [tag |-> "AOMPacket", variant |-> "Frame",
                packet |-> [data |-> data,
                            pts |-> Some(f.pts),
                            is_key |-> BitAnd(f.flags, AOM_FRAME_IS_KEY) # 0]]
      [] pkt.kind = AOM_CODEC_STATS_PKT ->
           [tag |-> "AOMPacket", variant |-> "Raw", bytes |-> to_buffer(m, pkt.data.twopass_stats)]
      [] pkt.kind = AOM_CODEC_CUSTOM_PKT ->
           [tag |-> "AOMPacket", variant |-> "TwoPassStats", bytes |-> to_buffer(m, pkt.data.raw)]
      [] pkt.kind = AOM_CODEC_FPMB_STATS_PKT ->
           [tag |-> "AOMPacket", variant |-> "FirstPassMBStats",
            bytes |-> to_buffer(m, pkt.data.firstpass_mb_stats)]
      [] pkt.kind = AOM_CODEC_PSNR_PKT ->
           LET p == pkt.data.psnr
           IN  [tag |-> "AOMPacket", variant |-> "PSNR",
                psnr |-> [samples |-> p.samples,
                          psnr |-> p.psnr,
                          sse |-> p.sse,
                          samples_hbd |-> p.samples_hbd,
                          sse_hbd |-> p.sse_hbd,
                          psnr_hbd |-> p.psnr_hbd]]
      [] OTHER -> Panic("Invalid aom packet kind detected")

\* AOMPacket::new that takes any set flag bit for the key-frame bit
AOMPacket_new_any_flag(m, pkt) ==
    CASE pkt.kind = AOM_CODEC_CX_FRAME_PKT ->
           LET f == pkt.data.frame
               data == SubSeq(copy_nonoverlapping(m, f.buf, f.sz), 1, f.sz)
           IN  [tag |-> "AOMPacket", variant |-> "Frame",
                packet |-> [data |-> data,
                            pts |-> Some(f.pts),
                            is_key |-> f.flags # 0]]
      [] pkt.kind = AOM_CODEC_STATS_PKT ->
           [tag |-> "AOMPacket", variant |-> "TwoPassStats", bytes |-> to_buffer(m, pkt.data.twopass_stats)]
      [] pkt.kind = AOM_CODEC_CUSTOM_PKT ->
           [tag |-> "AOMPacket", variant |-> "Raw", bytes |-> to_buffer(m, pkt.data.raw)]
      [] pkt.kind = AOM_CODEC_FPMB_STATS_PKT ->
           [tag |-> "AOMPacket", variant |-> "FirstPassMBStats",
            bytes |-> to_buffer(m, pkt.data.firstpass_mb_stats)]
      [] pkt.kind = AOM_CODEC_PSNR_PKT ->
           LET p == pkt.data.psnr
           IN  [tag |-> "AOMPacket", variant |-> "PSNR",
                psnr |-> [samples |-> p.samples,
                          psnr |-> p.psnr,
                          sse |-> p.sse,
                          samples_hbd |-> p.samples_hbd,
                          sse_hbd |-> p.sse_hbd,
                          psnr_hbd |-> p.psnr_hbd]]
      [] OTHER -> Panic("Invalid aom packet kind detected")

\* encoder.rs:39-83  AOMPacket::new(pkt), reading buffers from native memory m
AOMPacket_new(m, pkt) ==
    CASE pkt.kind = AOM_CODEC_CX_FRAME_PKT ->
           LET f == pkt.data.frame
               data == SubSeq(copy_nonoverlapping(m, f.buf, f.sz), 1, f.sz)
           IN  [tag |-> "AOMPacket", variant |-> "Frame",
                packet |-> [data |-> data,
                            pts |-> Some(f.pts),
                            is_key |-> BitAnd(f.flags, AOM_FRAME_IS_KEY) # 0]]
      [] pkt.kind = AOM_CODEC_STATS_PKT ->
           [tag |-> "AOMPacket", variant |-> "TwoPassStats", bytes |-> to_buffer(m, pkt.data.twopass_stats)]
      [] pkt.kind = AOM_CODEC_CUSTOM_PKT ->
           [tag |-> "AOMPacket", variant |-> "Raw", bytes |-> to_buffer(m, pkt.data.raw)]
      [] pkt.kind = AOM_CODEC_FPMB_STATS_PKT ->
           [tag |-> "AOMPacket", variant |-> "FirstPassMBStats",
            bytes |-> to_buffer(m, pkt.data.firstpass_mb_stats)]
      [] pkt.kind = AOM_CODEC_PSNR_PKT ->
           LET p == pkt.data.psnr
           IN  [tag |-> "AOMPacket", variant |-> "PSNR",
                psnr |-> [samples |-> p.samples,
                          psnr |-> p.psnr,
                          sse |-> p.sse,
                          samples_hbd |-> p.samples_hbd,
                          sse_hbd |-> p.sse_hbd,
                          psnr_hbd |-> p.psnr_hbd]]
      [] OTHER -> Panic("Invalid aom packet kind detected")

(*********************** frames and native images **************************)
\* pixel formats of av_data: YUV420 is the one map_formaton accepts
YUV420 == [name |-> "YUV420", primaries |-> 2, xfer |-> 2, matrix |-> 2]
OtherFormat == [name |-> "RGB24", primaries |-> 1, xfer |-> 1, matrix |-> 0]

NullPtr == <<>>
PlanePtr(i) == <<i>>

\* mem::zeroed::<aom_image>()
ZeroImage ==
    [tag |-> "Image", fmt |-> "AOM_IMG_FMT_NONE",
     cp |-> 0, tc |-> 0, mc |-> 0,
     w |-> 0, h |-> 0, bit_depth |-> 0, d_w |-> 0, d_h |-> 0,
     x_chroma_shift |-> 0, y_chroma_shift |-> 0,
     planes |-> <<NullPtr, NullPtr, NullPtr>>, stride |-> <<0, 0, 0>>,
     bps |-> 0, monochrome |-> 0, csp |-> 0, range |-> 0, r_w |-> 0, r_h |-> 0,
     sz |-> 0, temporal_id |-> 0, spatial_id |-> 0, user_priv |-> 0,
     img_data |-> 0, img_data_owner |-> 0, self_allocd |-> 0,
     metadata |-> 0, fb_priv |-> 0]

\* utils.rs:55-67  map_fmt_to_img(img, fmt)
map_fmt_to_img(img, fmt) ==
    [img EXCEPT !.cp = fmt.primaries, !.tc = fmt.xfer, !.mc = fmt.matrix]

\* map_formaton with the values of bit_depth and bps exchanged
map_formaton_depth_bps(img, fmt) ==
    IF fmt = YUV420
    THEN map_fmt_to_img([img EXCEPT !.fmt = "AOM_IMG_FMT_I420",
                                    !.bit_depth = 12,
                                    !.bps = 8,
                                    !.x_chroma_shift = 1,
                                    !.y_chroma_shift = 1], fmt)
    ELSE Panic("not implemented")

\* utils.rs:41-53  map_formaton(img, fmt)
map_formaton(img, fmt) ==
    IF fmt = YUV420
    THEN map_fmt_to_img([img EXCEPT !.fmt = "AOM_IMG_FMT_I420",
                                    !.bit_depth = 8,
                                    !.bps = 12,
                                    !.x_chroma_shift = 1,
                                    !.y_chroma_shift = 1], fmt)
    ELSE Panic("not implemented")

\* the loop of img_from_frame over the planes 0 .. count-1 of frame.buf
RECURSIVE set_planes(_, _, _)
set_planes(img, frame, i) ==
    IF i >= Len(frame.planes) THEN img
    ELSE IF i >= Len(img.planes) THEN Panic("index out of bounds")
    ELSE set_planes([img EXCEPT !.planes[i + 1] = PlanePtr(i),
                                !.stride[i + 1] = frame.planes[i + 1].linesize],
                    frame, i + 1)

\* utils.rs:8-30  img_from_frame(frame).  The casts `as u32` and `as i32`
\* keep every value below 2^31, which all sizes of the model are.
img_from_frame(frame) ==
    LET img0 == ZeroImage
        img1 == IF frame.kind = "Video"
                THEN LET m == map_formaton(img0, frame.format)
                     IN  IF m.tag = "Panic" THEN m
                         ELSE [m EXCEPT !.w = frame.width, !.h = frame.height,
                                        !.d_w = frame.width, !.d_h = frame.height]
                ELSE img0
    IN  IF img1.tag = "Panic" THEN img1 ELSE set_planes(img1, frame, 0)

\* frames handed to the encoder: a YUV420 video frame with a timestamp, one
\* in another pixel format, one without a timestamp, and an audio frame
VideoPlanes == << [linesize |-> 4], [linesize |-> 2], [linesize |-> 2] >>
Frames ==
    { [kind |-> "Video", format |-> YUV420, width |-> 4, height |-> 2,
       pts |-> Some(0), planes |-> VideoPlanes],
      [kind |-> "Video", format |-> OtherFormat, width |-> 4, height |-> 2,
       pts |-> Some(0), planes |-> VideoPlanes],
      [kind |-> "Video", format |-> YUV420, width |-> 4, height |-> 2,
       pts |-> None, planes |-> VideoPlanes],
      [kind |-> "Audio", format |-> YUV420, width |-> 0, height |-> 0,
       pts |-> Some(0), planes |-> << [linesize |-> 4] >>] }

(**************************** native encoder *******************************)
NativeFns ==
    { "aom_codec_enc_init_ver", "aom_codec_control", "aom_codec_encode",
      "aom_codec_get_cx_data", "aom_codec_destroy" }

Mems == [Addr -> Bytes]

\* contents the native encoder leaves in its output memory: consecutive
\* byte values from some first byte, so that neighbouring bytes differ
EncMems == { [a \in Addr |-> (b + a) % (MaxByte + 1)] : b \in Bytes }

\* packets the native encoder queues, each with a buffer spanning the
\* native memory: a key frame, a two-pass statistics packet, a PSNR packet
EncPackets ==
    { p \in FramePkts : /\ p.data.frame.buf = 0 /\ p.data.frame.sz = MemSize
                        /\ p.data.frame.pts = 0
                        /\ p.data.frame.flags = AOM_FRAME_IS_KEY }
    \cup { p \in StatsPkts : p.data.twopass_stats = [buf |-> 0, sz |-> MemSize] }
    \cup { p \in PsnrNativePkts :
             p.data.psnr = [samples |-> <<1, 2, 3, 4>>, psnr |-> <<0, 0, 0, 0>>,
                            sse |-> <<1, 2, 3, 4>>, samples_hbd |-> <<0, 0, 0, 0>>,
                            sse_hbd |-> <<0, 0, 0, 0>>, psnr_hbd |-> <<1, 2, 3, 4>>] }

PktLists == UNION { [1 .. n -> EncPackets] : n \in 0 .. MaxPkts }

NoRet == [tag |-> "NoRet"]
NoNative == [fn |-> "none"]
NoImg == [tag |-> "NoImg"]
NoFrame == [kind |-> "none"]
OkUnit == [tag |-> "Ok"]
Err(code) == [tag |-> "Err", code |-> code]

\* the wrapper may run one more operation on the live encoder
EncoderCallable ==
    /\ encState = "live"
    /\ nOps < MaxOps

\* encoder.rs:134-137  match result { aom_codec_err_t_AOM_CODEC_OK => Ok(()),
\* _ => Err(result) }.  encoder.rs:2-14 does not import the constant
\* aom_codec_err_t_AOM_CODEC_OK, so the first arm is an identifier pattern:
\* it binds result to a new variable and matches every value.
control_match(result) ==
    CASE TRUE -> OkUnit
      [] OTHER -> Err(result)

\* encoder.rs:147-150  the same match in aom_codec_encode
encode_match(result) ==
    CASE TRUE -> OkUnit
      [] OTHER -> Err(result)

\* encoder.rs:159-162  the same match in flush
flush_match(result) ==
    CASE TRUE -> OkUnit
      [] OTHER -> Err(result)

\* AV1Encoder::new that issues the CPUUSED control call before it looks at result
new_control_first ==
    /\ encState = "none"
    /\ config.tag = "Some"
    /\ \E result \in ErrCodes, cpuused \in ErrCodes :
         IF result = 0
         THEN LET r == control_match(cpuused)
              IN  /\ iter' = NullPtr
                  /\ nativeRet' = [fn |-> "aom_codec_enc_init_ver", val |-> result,
                                   control |-> cpuused]
                  /\ IF r.tag = "Ok"
                     THEN /\ encState' = "live"
                          /\ ctxState' = "init"
                          /\ ret' = [tag |-> "Ok", enc |-> "AV1Encoder"]
                          /\ calls' = [calls EXCEPT !["aom_codec_enc_init_ver"] = @ + 1,
                                                    !["aom_codec_control"] = @ + 1]
                     ELSE \* expect() panics; unwinding drops enc
                          /\ encState' = "panicked"
                          /\ ctxState' = "destroyed"
                          /\ ret' = Panic("Cannot set CPUUSED")
                          /\ calls' = [calls EXCEPT !["aom_codec_enc_init_ver"] = @ + 1,
                                                    !["aom_codec_control"] = @ + 1,
                                                    !["aom_codec_destroy"] = @ + 1]
         ELSE /\ encState' = "failed"
              /\ ret' = Err(result)
              /\ nativeRet' = [fn |-> "aom_codec_enc_init_ver", val |-> result]
              /\ calls' = [calls EXCEPT !["aom_codec_enc_init_ver"] = @ + 1,
                                        !["aom_codec_control"] = @ + 1]
              /\ UNCHANGED <<iter, ctxState>>
    /\ lastOp' = "new"
    /\ gets' = 0
    /\ UNCHANGED <<pktList, mem, nOps, nativeImg, held>>
    /\ UNCHANGED cfgVars
    /\ UNCHANGED buildVars
    /\ UNCHANGED imgVars

\* encoder.rs:93-124  AV1Encoder::new(cfg)
new ==
    /\ encState = "none"
    /\ config.tag = "Some"
    /\ \E result \in ErrCodes, cpuused \in ErrCodes :
         IF result = 0
         THEN LET r == control_match(cpuused)
              IN  /\ iter' = NullPtr
                  /\ nativeRet' = [fn |-> "aom_codec_enc_init_ver", val |-> result,
                                   control |-> cpuused]
                  /\ IF r.tag = "Ok"
                     THEN /\ encState' = "live"
                          /\ ctxState' = "init"
                          /\ ret' = [tag |-> "Ok", enc |-> "AV1Encoder"]
                          /\ calls' = [calls EXCEPT !["aom_codec_enc_init_ver"] = @ + 1,
                                                    !["aom_codec_control"] = @ + 1]
                     ELSE \* expect() panics; unwinding drops enc
                          /\ encState' = "panicked"
                          /\ ctxState' = "destroyed"
                          /\ ret' = Panic("Cannot set CPUUSED")
                          /\ calls' = [calls EXCEPT !["aom_codec_enc_init_ver"] = @ + 1,
                                                    !["aom_codec_control"] = @ + 1,
                                                    !["aom_codec_destroy"] = @ + 1]
         ELSE /\ encState' = "failed"
              /\ ret' = Err(result)
              /\ nativeRet' = [fn |-> "aom_codec_enc_init_ver", val |-> result]
              /\ calls' = [calls EXCEPT !["aom_codec_enc_init_ver"] = @ + 1]
              /\ UNCHANGED <<iter, ctxState>>
    /\ lastOp' = "new"
    /\ gets' = 0
    /\ UNCHANGED <<pktList, mem, nOps, nativeImg, held>>
    /\ UNCHANGED cfgVars
    /\ UNCHANGED buildVars
    /\ UNCHANGED imgVars

\* encoder.rs:127-138  AV1Encoder::aom_codec_control(id, val)
aom_codec_control(id, val) ==
    /\ EncoderCallable
    /\ \E result \in ErrCodes :
         /\ nativeRet' = [fn |-> "aom_codec_control", val |-> result]
         /\ ret' = control_match(result)
    /\ calls' = [calls EXCEPT !["aom_codec_control"] = @ + 1]
    /\ lastOp' = "aom_codec_control"
    /\ nOps' = nOps + 1
    /\ UNCHANGED <<encState, iter, ctxState, pktList, mem, nativeImg, gets, held>>
    /\ UNCHANGED cfgVars
    /\ UNCHANGED buildVars
    /\ UNCHANGED imgVars

\* encoder.rs:141-151  AV1Encoder::aom_codec_encode(frame)
aom_codec_encode(frame) ==
    /\ EncoderCallable
    /\ LET img == img_from_frame(frame)
       IN  IF img.tag = "Panic" \/ frame.pts = None
           THEN \* unimplemented!() or unwrap() on None: no native call is made
                /\ ret' = IF img.tag = "Panic" THEN img
                          ELSE Panic("called Option::unwrap() on a None value")
                /\ nativeRet' = NoNative
                /\ UNCHANGED <<iter, pktList, mem, calls, nativeImg, gets>>
           ELSE \E result \in ErrCodes, list \in PktLists, m \in EncMems :
                /\ nativeRet' = [fn |-> "aom_codec_encode", val |-> result]
                /\ nativeImg' = [tag |-> "Img", img |-> img, pts |-> frame.pts.val]
                /\ pktList' = list
                /\ mem' = m
                /\ iter' = NullPtr
                /\ gets' = 0
                /\ ret' = encode_match(result)
                /\ calls' = [calls EXCEPT !["aom_codec_encode"] = @ + 1]
    /\ lastOp' = "aom_codec_encode"
    /\ nOps' = nOps + 1
    /\ UNCHANGED <<encState, ctxState, held>>
    /\ UNCHANGED cfgVars
    /\ UNCHANGED buildVars
    /\ UNCHANGED imgVars

\* flush without the assignment self.iter = ptr::null()
flush_keeps_iter ==
    /\ EncoderCallable
    /\ \E result \in ErrCodes, list \in PktLists, m \in EncMems :
         /\ nativeRet' = [fn |-> "aom_codec_encode", val |-> result]
         /\ nativeImg' = [tag |-> "Null"]
         /\ pktList' = list
         /\ mem' = m
         /\ ret' = flush_match(result)
    /\ calls' = [calls EXCEPT !["aom_codec_encode"] = @ + 1]
    /\ lastOp' = "flush"
    /\ nOps' = nOps + 1
    /\ gets' = 0
    /\ UNCHANGED <<encState, ctxState, held, iter>>
    /\ UNCHANGED cfgVars
    /\ UNCHANGED buildVars
    /\ UNCHANGED imgVars

\* encoder.rs:154-163  AV1Encoder::flush()
flush ==
    /\ EncoderCallable
    /\ \E result \in ErrCodes, list \in PktLists, m \in EncMems :
         /\ nativeRet' = [fn |-> "aom_codec_encode", val |-> result]
         /\ nativeImg' = [tag |-> "Null"]
         /\ pktList' = list
         /\ mem' = m
         /\ iter' = NullPtr
         /\ ret' = flush_match(result)
    /\ calls' = [calls EXCEPT !["aom_codec_encode"] = @ + 1]
    /\ lastOp' = "flush"
    /\ nOps' = nOps + 1
    /\ gets' = 0
    /\ UNCHANGED <<encState, ctxState, held>>
    /\ UNCHANGED cfgVars
    /\ UNCHANGED buildVars
    /\ UNCHANGED imgVars

\* aom_codec_get_cx_data(ctx, iter) as called at encoder.rs:167-168: a null
\* iterator starts at the head of the packet list; the packet under the
\* iterator is returned and the iterator advanced, or null is returned at
\* the end of the list
native_get_cx_data(list, it) ==
    LET start == IF it = NullPtr THEN 0 ELSE it[1]
    IN  IF start < Len(list)
        THEN [pkt |-> <<start>>, iter |-> <<start + 1>>]
        ELSE [pkt |-> NullPtr, iter |-> <<start>>]

\* get_packet that decodes the head of the packet list instead of *pkt
get_packet_head ==
    /\ EncoderCallable
    /\ LET n == native_get_cx_data(pktList, iter)
           pkt == n.pkt
       IN  /\ iter' = n.iter
           /\ nativeRet' = [fn |-> "aom_codec_get_cx_data", val |-> pkt]
           /\ ret' = IF pkt = NullPtr
                     THEN None
                     ELSE LET p == AOMPacket_new(mem, pktList[1])
                          IN  IF p.tag = "Panic" THEN p ELSE Some(p)
           /\ held' = IF ret'.tag = "Some"
                      THEN Append(held, [tag |-> "Owned", val |-> ret'.val])
                      ELSE held
    /\ calls' = [calls EXCEPT !["aom_codec_get_cx_data"] = @ + 1]
    /\ lastOp' = "get_packet"
    /\ nOps' = nOps + 1
    /\ gets' = gets + 1
    /\ UNCHANGED <<encState, ctxState, pktList, mem, nativeImg>>
    /\ UNCHANGED cfgVars
    /\ UNCHANGED buildVars
    /\ UNCHANGED imgVars

\* get_packet whose packet borrows the native packet instead of copying it
get_packet_borrows ==
    /\ EncoderCallable
    /\ LET n == native_get_cx_data(pktList, iter)
           pkt == n.pkt
       IN  /\ iter' = n.iter
           /\ nativeRet' = [fn |-> "aom_codec_get_cx_data", val |-> pkt]
           /\ ret' = IF pkt = NullPtr
                     THEN None
                     ELSE LET p == AOMPacket_new(mem, pktList[pkt[1] + 1])
                          IN  IF p.tag = "Panic" THEN p ELSE Some(p)
           /\ held' = IF ret'.tag = "Some"
                      THEN Append(held, [tag |-> "Borrowed", pkt |-> pktList[pkt[1] + 1]])
                      ELSE held
    /\ calls' = [calls EXCEPT !["aom_codec_get_cx_data"] = @ + 1]
    /\ lastOp' = "get_packet"
    /\ nOps' = nOps + 1
    /\ gets' = gets + 1
    /\ UNCHANGED <<encState, ctxState, pktList, mem, nativeImg>>
    /\ UNCHANGED cfgVars
    /\ UNCHANGED buildVars
    /\ UNCHANGED imgVars

\* encoder.rs:166-175  AV1Encoder::get_packet()
get_packet ==
    /\ EncoderCallable
    /\ LET n == native_get_cx_data(pktList, iter)
           pkt == n.pkt
       IN  /\ iter' = n.iter
           /\ nativeRet' = [fn |-> "aom_codec_get_cx_data", val |-> pkt]
           /\ ret' = IF pkt = NullPtr
                     THEN None
                     ELSE LET p == AOMPacket_new(mem, pktList[pkt[1] + 1])
                          IN  IF p.tag = "Panic" THEN p ELSE Some(p)
           /\ held' = IF ret'.tag = "Some"
                      THEN Append(held, [tag |-> "Owned", val |-> ret'.val])
                      ELSE held
    /\ calls' = [calls EXCEPT !["aom_codec_get_cx_data"] = @ + 1]
    /\ lastOp' = "get_packet"
    /\ nOps' = nOps + 1
    /\ gets' = gets + 1
    /\ UNCHANGED <<encState, ctxState, pktList, mem, nativeImg>>
    /\ UNCHANGED cfgVars
    /\ UNCHANGED buildVars
    /\ UNCHANGED imgVars

\* Drop that forgets to call aom_codec_destroy
drop_leak ==
    /\ encState = "live"
    /\ \E m \in EncMems :
         /\ mem' = m
    /\ encState' = "dropped"
    /\ pktList' = <<>>
    /\ nativeRet' = [fn |-> "aom_codec_destroy", val |-> 0]
    /\ ret' = NoRet
    /\ lastOp' = "drop"
    /\ UNCHANGED <<iter, nOps, nativeImg, gets, held, ctxState, calls>>
    /\ UNCHANGED cfgVars
    /\ UNCHANGED buildVars
    /\ UNCHANGED imgVars

\* encoder.rs:179-183  impl Drop for AV1Encoder; aom_codec_destroy releases
\* the context and the packet buffers it owns
drop ==
    /\ encState = "live"
    /\ \E m \in EncMems :
         /\ mem' = m
    /\ encState' = "dropped"
    /\ ctxState' = "destroyed"
    /\ pktList' = <<>>
    /\ calls' = [calls EXCEPT !["aom_codec_destroy"] = @ + 1]
    /\ nativeRet' = [fn |-> "aom_codec_destroy", val |-> 0]
    /\ ret' = NoRet
    /\ lastOp' = "drop"
    /\ UNCHANGED <<iter, nOps, nativeImg, gets, held>>
    /\ UNCHANGED cfgVars
    /\ UNCHANGED buildVars
    /\ UNCHANGED imgVars

(******************************* build.rs **********************************)
\* build.rs:19-25  HEADERS
HEADERS ==
    { "aom/aom.h", "aom/aomcx.h", "aom/aom_decoder.h", "aom/aom_encoder.h",
      "aom/aomdx.h" }

\* the files of the libaom release archive: the headers and the rest
ReleaseFiles == HEADERS \cup { "CMakeLists.txt" }

\* files AOM_DIR may hold before the build: release files, the combined
\* header of an earlier build, and a file of another origin
AomFiles == ReleaseFiles \cup { "combined_header.h", "stale.h" }

NoDir == [exists |-> FALSE, files |-> {}]
Dir(files) == [exists |-> TRUE, files |-> files]

\* the build script is not part of the running library
BuildNotRunning ==
    /\ pc = "off"
    /\ aomDir = NoDir
    /\ tmpDir = NoDir
    /\ ffiDir = FALSE
    /\ buildDir = [exists |-> FALSE, lib |-> FALSE]
    /\ headers_exist = TRUE
    /\ bindings = FALSE
    /\ aomAtStart = NoDir
    /\ downloadCalls = 0

\* build.rs:153-164  main: the ffi directory is created when missing
main_ffi_dir ==
    /\ pc = "main"
    /\ ffiDir' = TRUE
    /\ pc' = "check_headers"
    /\ UNCHANGED <<aomDir, tmpDir, buildDir, headers_exist, bindings,
                   aomAtStart, downloadCalls>>
    /\ UNCHANGED cfgVars
    /\ UNCHANGED encVars
    /\ UNCHANGED imgVars

\* build.rs:166-188  main: headers_exist is cleared by every missing header,
\* and the download runs when it is false
main_check_headers ==
    /\ pc = "check_headers"
    /\ LET found == \A header \in HEADERS :
                       aomDir.exists /\ header \in aomDir.files
       IN  /\ headers_exist' = found
           /\ pc' = IF found THEN "build_libaom" ELSE "download"
    /\ UNCHANGED <<aomDir, tmpDir, ffiDir, buildDir, bindings, aomAtStart,
                   downloadCalls>>
    /\ UNCHANGED cfgVars
    /\ UNCHANGED encVars
    /\ UNCHANGED imgVars

\* download_and_extract_libaom that copies into AOM_DIR without removing it
download_and_extract_libaom_keeps_dir ==
    /\ pc = "download"
    /\ downloadCalls' = downloadCalls + 1
    /\ \E outcome \in {"ok", "download failed", "unpack failed"} :
         CASE outcome = "download failed" ->
                /\ tmpDir' = Dir(tmpDir.files)
                /\ pc' = "panicked"
                /\ UNCHANGED aomDir
           [] outcome = "unpack failed" ->
                /\ \E part \in SUBSET ReleaseFiles :
                     /\ part # ReleaseFiles
                     /\ tmpDir' = Dir(tmpDir.files \cup part)
                /\ pc' = "panicked"
                /\ UNCHANGED aomDir
           [] OTHER ->
                LET extracted == tmpDir.files \cup ReleaseFiles
                IN  /\ aomDir' = Dir(aomDir.files \cup extracted)
                    /\ tmpDir' = NoDir
                    /\ pc' = "build_libaom"
    /\ UNCHANGED <<ffiDir, buildDir, headers_exist, bindings, aomAtStart>>
    /\ UNCHANGED cfgVars
    /\ UNCHANGED encVars
    /\ UNCHANGED imgVars

\* build.rs:45-95  download_and_extract_libaom: the temporary directory is
\* created, the archive downloaded and unpacked into it, AOM_DIR removed if
\* it exists and created again, the extraction copied into it and the
\* temporary directory removed; a failed download or unpack panics
download_and_extract_libaom ==
    /\ pc = "download"
    /\ downloadCalls' = downloadCalls + 1
    /\ \E outcome \in {"ok", "download failed", "unpack failed"} :
         CASE outcome = "download failed" ->
                /\ tmpDir' = Dir(tmpDir.files)
                /\ pc' = "panicked"
                /\ UNCHANGED aomDir
           [] outcome = "unpack failed" ->
                /\ \E part \in SUBSET ReleaseFiles :
                     /\ part # ReleaseFiles
                     /\ tmpDir' = Dir(tmpDir.files \cup part)
                /\ pc' = "panicked"
                /\ UNCHANGED aomDir
           [] OTHER ->
                LET extracted == tmpDir.files \cup ReleaseFiles
                IN  /\ aomDir' = Dir(extracted)
                    /\ tmpDir' = NoDir
                    /\ pc' = "build_libaom"
    /\ UNCHANGED <<ffiDir, buildDir, headers_exist, bindings, aomAtStart>>
    /\ UNCHANGED cfgVars
    /\ UNCHANGED encVars
    /\ UNCHANGED imgVars

\* build.rs:97-140  build_libaom: the build directory is created when
\* missing; cmake and make run when libaom.so is missing, and panic on failure
build_libaom ==
    /\ pc = "build_libaom"
    /\ IF buildDir.lib
       THEN /\ buildDir' = buildDir
            /\ pc' = "combined_header"
       ELSE \E built \in BOOLEAN :
              /\ buildDir' = [exists |-> TRUE, lib |-> built]
              /\ pc' = IF built THEN "combined_header" ELSE "panicked"
    /\ UNCHANGED <<aomDir, tmpDir, ffiDir, headers_exist, bindings, aomAtStart,
                   downloadCalls>>
    /\ UNCHANGED cfgVars
    /\ UNCHANGED encVars
    /\ UNCHANGED imgVars

\* build.rs:27-43  create_combined_header_file
create_combined_header_file ==
    /\ pc = "combined_header"
    /\ IF aomDir.exists
       THEN /\ aomDir' = Dir(aomDir.files \cup {"combined_header.h"})
            /\ pc' = "bindgen"
       ELSE /\ UNCHANGED aomDir
            /\ pc' = "panicked"
    /\ UNCHANGED <<tmpDir, ffiDir, buildDir, headers_exist, bindings,
                   aomAtStart, downloadCalls>>
    /\ UNCHANGED cfgVars
    /\ UNCHANGED encVars
    /\ UNCHANGED imgVars

\* build.rs:190-216  main: the bindings are generated and written to OUT_DIR
\* and to src/ffi; a failed generation panics
main_bindgen ==
    /\ pc = "bindgen"
    /\ \E generated \in BOOLEAN :
         /\ bindings' = generated
         /\ pc' = IF generated THEN "done" ELSE "panicked"
    /\ UNCHANGED <<aomDir, tmpDir, ffiDir, buildDir, headers_exist, aomAtStart,
                   downloadCalls>>
    /\ UNCHANGED cfgVars
    /\ UNCHANGED encVars
    /\ UNCHANGED imgVars

(*************************** specifications ********************************)
ZeroCalls == [fn \in NativeFns |-> 0]
NothingSet == [f \in Fields |-> NotSet]
ZeroRecord == [f \in Fields |-> 0]
ZeroMem == [a \in Addr |-> 0]
ControlIds == { "AOME_SET_CPUUSED", "AOME_SET_ENABLEAUTOALTREF" }

\* no encoder has been constructed
EncoderAbsent ==
    /\ encState = "none"
    /\ iter = NullPtr
    /\ ctxState = "uninit"
    /\ ret = NoRet
    /\ nativeRet = NoNative
    /\ calls = ZeroCalls
    /\ lastOp = "none"
    /\ nOps = 0
    /\ nativeImg = NoImg
    /\ gets = 0
    /\ held = <<>>
    /\ imgRet = NoImg

\* the encoder: a configuration exists, no encoder has been constructed
Init ==
    /\ config = [tag |-> "Some", enc_cfg |-> ZeroRecord]
    /\ cfgResult = [tag |-> "Ok"]
    /\ cfgNativeRet = 0
    /\ nativeDefault = ZeroRecord
    /\ lastSet = NothingSet
    /\ lastSetter = NoSetter
    /\ nSetterCalls = 0
    /\ setterRet = NoRef
    /\ EncoderAbsent
    /\ BuildNotRunning
    /\ frameArg = NoFrame
    /\ pktList = <<>>
    /\ mem = ZeroMem

Next ==
    \/ new
    \/ \E id \in ControlIds, val \in Values : aom_codec_control(id, val)
    \/ \E frame \in Frames : aom_codec_encode(frame)
    \/ flush
    \/ get_packet
    \/ drop

Spec == Init /\ [][Next]_vars

\* the configuration builder: nothing has been initialised yet
InitCfg ==
    /\ config = NoConfig
    /\ cfgResult = NoResult
    /\ cfgNativeRet = 0
    /\ nativeDefault = ZeroRecord
    /\ lastSet = NothingSet
    /\ lastSetter = NoSetter
    /\ nSetterCalls = 0
    /\ setterRet = NoRef
    /\ EncoderAbsent
    /\ BuildNotRunning
    /\ frameArg = NoFrame
    /\ pktList = <<>>
    /\ mem = ZeroMem

NextCfg ==
    \/ \E usage \in Usages : init(usage)
    \/ \E value \in Values : g_usage(value)
    \/ \E value \in Values : g_threads(value)
    \/ \E value \in Values : g_profile(value)
    \/ \E value \in Values : g_w(value)
    \/ \E value \in Values : g_h(value)
    \/ \E value \in Values : g_limit(value)
    \/ \E value \in Values : g_forced_max_frame_width(value)
    \/ \E value \in Values : g_forced_max_frame_height(value)
    \/ \E value \in Values : g_bit_depth(value)
    \/ \E value \in Values : g_input_bit_depth(value)
    \/ \E value \in Values : g_timebase(value)
    \/ \E value \in Values : g_error_resilient(value)
    \/ \E value \in Values : g_pass(value)
    \/ \E value \in Values : g_lag_in_frames(value)
    \/ \E value \in Values : rc_dropframe_thresh(value)
    \/ \E value \in Values : rc_resize_mode(value)
    \/ \E value \in Values : rc_resize_denominator(value)
    \/ \E value \in Values : rc_resize_kf_denominator(value)
    \/ \E value \in Values : rc_superres_mode(value)
    \/ \E value \in Values : rc_superres_denominator(value)
    \/ \E value \in Values : rc_superres_kf_denominator(value)
    \/ \E value \in Values : rc_superres_qthresh(value)
    \/ \E value \in Values : rc_superres_kf_qthresh(value)
    \/ \E value \in Values : rc_end_usage(value)
    \/ \E value \in Values : rc_twopass_stats_in(value)
    \/ \E value \in Values : rc_firstpass_mb_stats_in(value)
    \/ \E value \in Values : rc_target_bitrate(value)
    \/ \E value \in Values : rc_min_quantizer(value)
    \/ \E value \in Values : rc_max_quantizer(value)
    \/ \E value \in Values : rc_undershoot_pct(value)
    \/ \E value \in Values : rc_overshoot_pct(value)
    \/ \E value \in Values : rc_buf_sz(value)
    \/ \E value \in Values : rc_buf_initial_sz(value)
    \/ \E value \in Values : rc_buf_optimal_sz(value)
    \/ \E value \in Values : rc_2pass_vbr_bias_pct(value)
    \/ \E value \in Values : rc_2pass_vbr_minsection_pct(value)
    \/ \E value \in Values : rc_2pass_vbr_maxsection_pct(value)
    \/ \E value \in Values : fwd_kf_enabled(value)
    \/ \E value \in Values : kf_mode(value)
    \/ \E value \in Values : kf_min_dist(value)
    \/ \E value \in Values : kf_max_dist(value)
    \/ \E value \in Values : sframe_dist(value)
    \/ \E value \in Values : sframe_mode(value)
    \/ \E value \in Values : large_scale_tile(value)
    \/ \E value \in Values : monochrome(value)
    \/ \E value \in Values : full_still_picture_hdr(value)
    \/ \E value \in Values : save_as_annexb(value)
    \/ \E value \in Values : tile_width_count(value)
    \/ \E value \in Values : tile_height_count(value)
    \/ \E value \in Values : tile_widths(value)
    \/ \E value \in Values : tile_heights(value)
    \/ \E value \in Values : use_fixed_qp_offsets(value)
    \/ \E value \in Values : fixed_qp_offsets(value)
    \/ \E value \in Values : encoder_cfg(value)

SpecCfg == InitCfg /\ [][NextCfg]_vars

\* AOMPacket::new as a function: one native packet over any native memory
Decode ==
    /\ lastOp = "none"
    /\ ret' = AOMPacket_new(mem, pktList[1])
    /\ lastOp' = "AOMPacket::new"
    /\ UNCHANGED <<encState, iter, ctxState, pktList, mem, nativeRet, calls,
                   nOps, nativeImg, gets, held>>
    /\ UNCHANGED cfgVars
    /\ UNCHANGED buildVars
    /\ UNCHANGED imgVars

InitPkt ==
    /\ config = NoConfig
    /\ cfgResult = NoResult
    /\ cfgNativeRet = 0
    /\ nativeDefault = ZeroRecord
    /\ lastSet = NothingSet
    /\ lastSetter = NoSetter
    /\ nSetterCalls = 0
    /\ setterRet = NoRef
    /\ EncoderAbsent
    /\ BuildNotRunning
    /\ frameArg = NoFrame
    /\ \E p \in NativePackets : pktList = <<p>>
    /\ mem \in Mems

NextPkt == Decode

SpecPkt == InitPkt /\ [][NextPkt]_vars

\* the number of plane slots of aom_image
ImagePlanes == 3

\* frames given to img_from_frame: video or audio, in YUV420 or another
\* format, of any size in bounds, with up to ImagePlanes planes
PlaneSeqs ==
    UNION { [1 .. n -> [linesize : 1 .. MaxLinesize]] : n \in 0 .. ImagePlanes }
ImgFrames ==
    [kind : {"Video", "Audio"}, format : {YUV420, OtherFormat},
     width : 1 .. MaxDim, height : 1 .. MaxDim, pts : {Some(0)},
     planes : PlaneSeqs]

\* img_from_frame as a function of its frame
ImgFromFrame ==
    /\ lastOp = "none"
    /\ imgRet' = img_from_frame(frameArg)
    /\ lastOp' = "img_from_frame"
    /\ UNCHANGED frameArg
    /\ UNCHANGED buildVars
    /\ UNCHANGED <<encState, iter, ctxState, pktList, mem, ret, nativeRet,
                   calls, nOps, nativeImg, gets, held>>
    /\ UNCHANGED cfgVars
    /\ UNCHANGED buildVars

InitImg ==
    /\ config = NoConfig
    /\ cfgResult = NoResult
    /\ cfgNativeRet = 0
    /\ nativeDefault = ZeroRecord
    /\ lastSet = NothingSet
    /\ lastSetter = NoSetter
    /\ nSetterCalls = 0
    /\ setterRet = NoRef
    /\ EncoderAbsent
    /\ BuildNotRunning
    /\ frameArg \in ImgFrames
    /\ pktList = <<>>
    /\ mem = ZeroMem

NextImg == ImgFromFrame

SpecImg == InitImg /\ [][NextImg]_vars

\* what an interrupted earlier run may have left in the temporary directory
TmpLeftovers == { NoDir, Dir({}), Dir({"aom/aom.h"}) }

\* the build script starts on any content of AOM_DIR
InitBuild ==
    /\ config = NoConfig
    /\ cfgResult = NoResult
    /\ cfgNativeRet = 0
    /\ nativeDefault = ZeroRecord
    /\ lastSet = NothingSet
    /\ lastSetter = NoSetter
    /\ nSetterCalls = 0
    /\ setterRet = NoRef
    /\ EncoderAbsent
    /\ frameArg = NoFrame
    /\ pktList = <<>>
    /\ mem = ZeroMem
    /\ pc = "main"
    /\ aomDir \in {NoDir} \cup { Dir(fs) : fs \in SUBSET AomFiles }
    /\ aomAtStart = aomDir
    /\ tmpDir \in TmpLeftovers
    /\ ffiDir \in BOOLEAN
    /\ buildDir \in { [exists |-> FALSE, lib |-> FALSE],
                      [exists |-> TRUE, lib |-> FALSE],
                      [exists |-> TRUE, lib |-> TRUE] }
    /\ headers_exist = TRUE
    /\ bindings = FALSE
    /\ downloadCalls = 0

NextBuild ==
    \/ main_ffi_dir
    \/ main_check_headers
    \/ download_and_extract_libaom
    \/ build_libaom
    \/ create_combined_header_file
    \/ main_bindgen

SpecBuild == InitBuild /\ [][NextBuild]_vars

(******************************* claims ************************************)
Copied(v, buf, sz) ==
    /\ Len(v) = sz
    /\ \A i \in 0 .. (sz - 1) : v[i + 1] = mem[buf + i]

DestroyCalls == calls["aom_codec_destroy"]

\* C1: AOMPacket::new turns each of the five native packet kinds into its
\* own variant (CX_FRAME -> Frame, STATS -> TwoPassStats, FPMB_STATS ->
\* FirstPassMBStats, PSNR -> PSNR, CUSTOM -> Raw); the variant depends on the
\* kind tag only and no two kinds share a variant.
C1_KindDecidesVariant ==
    lastOp = "AOMPacket::new" =>
        LET k == pktList[1].kind
        IN  /\ ret.tag = "AOMPacket"
            /\ (k = AOM_CODEC_CX_FRAME_PKT) <=> (ret.variant = "Frame")
            /\ (k = AOM_CODEC_STATS_PKT) <=> (ret.variant = "TwoPassStats")
            /\ (k = AOM_CODEC_FPMB_STATS_PKT) <=> (ret.variant = "FirstPassMBStats")
            /\ (k = AOM_CODEC_PSNR_PKT) <=> (ret.variant = "PSNR")
            /\ (k = AOM_CODEC_CUSTOM_PKT) <=> (ret.variant = "Raw")

C1_Witness ==
    /\ lastOp = "AOMPacket::new"
    /\ pktList[1].kind = AOM_CODEC_CUSTOM_PKT
    /\ ret.variant = "Raw"

\* C2: payloads are copied unchanged: the byte vector built from a native
\* buffer (buf, sz) has length sz and its i-th byte is buf[i], for Frame,
\* TwoPassStats, FirstPassMBStats and Raw; the six arrays of a PSNR packet
\* equal the native arrays of the same name.
C2_PayloadCopied ==
    lastOp = "AOMPacket::new" =>
        LET pkt == pktList[1]
            k == pkt.kind
        IN  /\ k = AOM_CODEC_CX_FRAME_PKT =>
                  Copied(ret.packet.data, pkt.data.frame.buf, pkt.data.frame.sz)
            /\ k = AOM_CODEC_STATS_PKT =>
                  Copied(ret.bytes, pkt.data.twopass_stats.buf, pkt.data.twopass_stats.sz)
            /\ k = AOM_CODEC_FPMB_STATS_PKT =>
                  Copied(ret.bytes, pkt.data.firstpass_mb_stats.buf,
                         pkt.data.firstpass_mb_stats.sz)
            /\ k = AOM_CODEC_CUSTOM_PKT =>
                  Copied(ret.bytes, pkt.data.raw.buf, pkt.data.raw.sz)
            /\ k = AOM_CODEC_PSNR_PKT =>
                  /\ ret.psnr.samples = pkt.data.psnr.samples
                  /\ ret.psnr.psnr = pkt.data.psnr.psnr
                  /\ ret.psnr.sse = pkt.data.psnr.sse
                  /\ ret.psnr.samples_hbd = pkt.data.psnr.samples_hbd
                  /\ ret.psnr.sse_hbd = pkt.data.psnr.sse_hbd
                  /\ ret.psnr.psnr_hbd = pkt.data.psnr.psnr_hbd

C2_Witness ==
    /\ lastOp = "AOMPacket::new"
    /\ pktList[1].kind = AOM_CODEC_STATS_PKT
    /\ pktList[1].data.twopass_stats = [buf |-> 1, sz |-> 1]
    /\ mem[0] # mem[1]
    /\ ret.bytes = <<mem[1]>>

\* C3: the context of an encoder that new returned as Ok is destroyed exactly
\* once, when the encoder is dropped, whatever calls and results came before;
\* when new returns Err, aom_codec_destroy is never called.
C3_DestroyedExactlyOnce ==
    /\ encState \in {"none", "live", "failed"} => DestroyCalls = 0
    /\ encState = "dropped" => DestroyCalls = 1
    /\ (ctxState = "destroyed") <=> (DestroyCalls = 1)

C3_Witness ==
    /\ encState = "dropped"
    /\ DestroyCalls = 1
    /\ calls["aom_codec_encode"] >= 1
    /\ calls["aom_codec_get_cx_data"] >= 1
    /\ calls["aom_codec_control"] >= 2

\* C4: a setter writes its value to the field of its own name, leaves every
\* other field of the record unchanged and returns the builder it was called
\* on.
C4_SetterFrame ==
    [][nSetterCalls' = nSetterCalls + 1 =>
          /\ config' = [config EXCEPT !.enc_cfg[lastSetter'.name] = lastSetter'.value]
          /\ setterRet' = SelfRef]_vars

C4_Witness ==
    /\ nSetterCalls = 2
    /\ lastSetter.name = "g_w"
    /\ config.enc_cfg.g_w # nativeDefault.g_w
    /\ config.enc_cfg.g_h = nativeDefault.g_h
    /\ setterRet = SelfRef

\* C5: after a successful init and any sequence of setter calls, every field
\* holds the value of the latest setter call for it, or the default written
\* by aom_codec_enc_config_default if its setter was never called.
C5_LatestOrDefault ==
    config.tag = "Some" =>
        \A f \in Fields :
            config.enc_cfg[f] = IF lastSet[f].set THEN lastSet[f].value
                                ELSE nativeDefault[f]

C5_Witness ==
    /\ nSetterCalls = 2
    /\ lastSet["kf_max_dist"].set
    /\ lastSetter.name = "kf_max_dist"
    /\ config.enc_cfg.kf_max_dist < nativeDefault.kf_max_dist
    /\ \A g \in Fields \ {"kf_max_dist"} : ~lastSet[g].set

\* C6: init returns Ok with the record aom_codec_enc_config_default filled in
\* exactly when that call returns 0; for any other code n it returns Err with
\* the message "Failed to initialize encoder: error code n" and produces no
\* configuration.
C6_InitResult ==
    cfgResult # NoResult =>
        /\ (cfgResult.tag = "Ok") <=> (cfgNativeRet = 0)
        /\ cfgNativeRet = 0 =>
              /\ config.tag = "Some"
              /\ nSetterCalls = 0 => config.enc_cfg = nativeDefault
        /\ cfgNativeRet # 0 =>
              /\ cfgResult.tag = "Err"
              /\ cfgResult.msg = "Failed to initialize encoder: error code "
                                   \o format_u32(cfgNativeRet)
              /\ config = NoConfig

C6_Witness ==
    /\ cfgNativeRet = 10
    /\ cfgResult.tag = "Err"
    /\ cfgResult.msg = "Failed to initialize encoder: error code 10"
    /\ config = NoConfig

\* C7: new returns Ok exactly when aom_codec_enc_init_ver returns 0; for a
\* non-zero result r it returns Err(r), builds no encoder and makes no other
\* native call on the uninitialized context.
C7_NewResult ==
    lastOp = "new" =>
        /\ nativeRet.fn = "aom_codec_enc_init_ver"
        /\ (ret.tag = "Ok") <=> (nativeRet.val = 0)
        /\ nativeRet.val = 0 => encState = "live"
        /\ nativeRet.val # 0 =>
              /\ ret = Err(nativeRet.val)
              /\ encState = "failed"
              /\ ctxState = "uninit"
              /\ calls = [ZeroCalls EXCEPT !["aom_codec_enc_init_ver"] = 1]

C7_Witness ==
    /\ lastOp = "new"
    /\ encState = "failed"
    /\ ret = Err(1)

\* C8: aom_codec_control returns Ok(()) exactly when the native call returns
\* AOM_CODEC_OK, and Err(code) with the native code otherwise.
C8_ControlResult ==
    lastOp = "aom_codec_control" =>
        /\ (ret = OkUnit) <=> (nativeRet.val = 0)
        /\ nativeRet.val # 0 => ret = Err(nativeRet.val)

\* C9: aom_codec_encode and flush each return Ok(()) exactly when the native
\* aom_codec_encode call returns AOM_CODEC_OK, and Err(code) with the native
\* code otherwise.
C9_EncodeFlushResult ==
    (lastOp \in {"aom_codec_encode", "flush"} /\ nativeRet.fn = "aom_codec_encode") =>
        /\ (ret = OkUnit) <=> (nativeRet.val = 0)
        /\ nativeRet.val # 0 => ret = Err(nativeRet.val)

\* C10: get_packet returns None exactly when aom_codec_get_cx_data returns
\* null, and otherwise Some of the packet decoded from what the pointer
\* refers to; a None result changes nothing of the wrapper but what the
\* native call did to the iterator.
C10_GetPacket ==
    [][(lastOp' = "get_packet" /\ nOps' = nOps + 1) =>
          LET pkt == nativeRet'.val
          IN  /\ (ret' = None) <=> (pkt = NullPtr)
              /\ pkt # NullPtr =>
                    ret' = Some(AOMPacket_new(mem, pktList[pkt[1] + 1]))
              /\ ret' = None =>
                    /\ UNCHANGED <<encState, ctxState, pktList, mem, nativeImg>>
                    /\ iter' = native_get_cx_data(pktList, iter).iter]_vars

C10_Witness ==
    /\ lastOp = "get_packet"
    /\ iter = <<2>>
    /\ ret.tag = "Some"
    /\ ret.val.variant = "PSNR"
    /\ pktList[1].kind = AOM_CODEC_STATS_PKT
\* C11: for a YUV420 video frame img_from_frame returns an image with fmt
\* AOM_IMG_FMT_I420, bit_depth 8, bps 12, both chroma shifts 1, w = d_w = the
\* frame's width, h = d_h = its height, cp/tc/mc from the format's primaries,
\* transfer and matrix, planes[i] at the start of plane i and stride[i] its
\* line size for every plane of the frame; every other field is zero.
C11_ImageOfYuv420Frame ==
    (lastOp = "img_from_frame" /\ frameArg.kind = "Video"
        /\ frameArg.format = YUV420) =>
        LET n == Len(frameArg.planes)
        IN  imgRet =
              [tag |-> "Image", fmt |-> "AOM_IMG_FMT_I420",
               bit_depth |-> 8, bps |-> 12,
               x_chroma_shift |-> 1, y_chroma_shift |-> 1,
               w |-> frameArg.width, d_w |-> frameArg.width,
               h |-> frameArg.height, d_h |-> frameArg.height,
               cp |-> frameArg.format.primaries, tc |-> frameArg.format.xfer,
               mc |-> frameArg.format.matrix,
               planes |-> [i \in 1 .. ImagePlanes |->
                             IF i <= n THEN PlanePtr(i - 1) ELSE NullPtr],
               stride |-> [i \in 1 .. ImagePlanes |->
                             IF i <= n THEN frameArg.planes[i].linesize ELSE 0],
               monochrome |-> 0, csp |-> 0, range |-> 0, r_w |-> 0, r_h |-> 0,
               sz |-> 0, temporal_id |-> 0, spatial_id |-> 0, user_priv |-> 0,
               img_data |-> 0, img_data_owner |-> 0, self_allocd |-> 0,
               metadata |-> 0, fb_priv |-> 0]

C11_Witness ==
    /\ lastOp = "img_from_frame"
    /\ frameArg.kind = "Video"
    /\ frameArg.format = YUV420
    /\ frameArg.width = 2
    /\ frameArg.height = 1
    /\ Len(frameArg.planes) = 2
    /\ imgRet.w = 2
    /\ imgRet.d_h = 1
    /\ imgRet.planes = <<PlanePtr(0), PlanePtr(1), NullPtr>>
\* what the caller reads from a packet it holds, given the native memory
Observe(h, m) ==
    IF h.tag = "Owned" THEN h.val ELSE AOMPacket_new(m, h.pkt)

\* C12: the iterator is null after construction and is set to null by every
\* aom_codec_encode and flush that reaches the native call, whatever it
\* returns; aom_codec_control leaves it alone and get_packet never nulls it.
\* So the k-th get_packet after an encode or flush returns Some of the k-th
\* native packet, in order, and None once the packets are used up.
C12_IteratorOrder ==
    [][/\ (lastOp' = "new" /\ lastOp = "none" /\ ret'.tag = "Ok") => iter' = NullPtr
       /\ (nOps' = nOps + 1 /\ lastOp' \in {"aom_codec_encode", "flush"}
              /\ nativeRet'.fn = "aom_codec_encode") => iter' = NullPtr
       /\ (nOps' = nOps + 1 /\ lastOp' = "aom_codec_control") => iter' = iter
       /\ (nOps' = nOps + 1 /\ lastOp' = "get_packet") =>
              /\ iter' # NullPtr
              /\ ret' = IF gets < Len(pktList)
                        THEN Some(AOMPacket_new(mem, pktList[gets + 1]))
                        ELSE None]_vars

C12_Witness ==
    /\ lastOp = "get_packet"
    /\ gets = 3
    /\ Len(pktList) = 2
    /\ pktList[1] # pktList[2]
    /\ ret = None
    /\ Len(held) = 2
    /\ held[1].val = AOMPacket_new(mem, pktList[1])
    /\ held[2].val = AOMPacket_new(mem, pktList[2])
\* C13: for a compressed-frame packet the Packet has pts = Some(native pts)
\* and is_key is true exactly when the AOM_FRAME_IS_KEY bit of the native
\* flags word is set, whatever the other bits are.
C13_FramePtsAndKey ==
    (lastOp = "AOMPacket::new" /\ pktList[1].kind = AOM_CODEC_CX_FRAME_PKT) =>
        LET f == pktList[1].data.frame
        IN  /\ ret.variant = "Frame"
            /\ ret.packet.pts = [tag |-> "Some", val |-> f.pts]
            /\ ret.packet.is_key <=> ((f.flags \div AOM_FRAME_IS_KEY) % 2 = 1)

C13_Witness ==
    /\ lastOp = "AOMPacket::new"
    /\ pktList[1].kind = AOM_CODEC_CX_FRAME_PKT
    /\ pktList[1].data.frame.flags = 2
    /\ pktList[1].data.frame.pts = 1
    /\ ret.packet.is_key = FALSE
    /\ ret.packet.pts = Some(1)

\* C14: a packet returned by get_packet is an owned copy: no later
\* aom_codec_encode, flush, get_packet or aom_codec_control call, nor the
\* drop of the encoder, changes what the caller reads from it, although the
\* native memory it was copied from is rewritten or released.
C14_OwnedCopy ==
    [][\A i \in 1 .. Len(held) :
          Observe(held'[i], mem') = Observe(held[i], mem)]_vars

C14_Witness ==
    /\ encState = "dropped"
    /\ Len(held) = 2
    /\ held[1].val.variant = "TwoPassStats"
    /\ held[1].val.bytes[1] # mem[0]
    /\ calls["aom_codec_encode"] >= 2
\* C15: the build script downloads and unpacks libaom exactly when one of
\* the five headers is missing from AOM_DIR; when it has downloaded, the
\* directory that was there is gone, AOM_DIR holds just the extracted
\* release, and the temporary extraction directory is removed.
C15_DownloadWhenHeaderMissing ==
    /\ pc \in {"build_libaom", "combined_header", "bindgen", "done", "panicked"} =>
          ((downloadCalls = 1) <=>
              (\E h \in HEADERS : ~(aomAtStart.exists /\ h \in aomAtStart.files)))
    /\ pc \in {"main", "check_headers", "download"} => downloadCalls = 0
    /\ (pc = "build_libaom" /\ downloadCalls = 1) =>
          /\ aomDir = [exists |-> TRUE, files |-> ReleaseFiles]
          /\ ~tmpDir.exists

C15_Witness ==
    /\ pc = "build_libaom"
    /\ downloadCalls = 1
    /\ aomAtStart.exists
    /\ "stale.h" \in aomAtStart.files
    /\ "aom/aom.h" \in aomAtStart.files
    /\ "aom/aomdx.h" \notin aomAtStart.files
    /\ aomDir.files = ReleaseFiles
    /\ ~tmpDir.exists

====
